---- MODULE Spec2Model ----
(***************************************************************************)
(* Model of server.py: the alignment classifier (check_alignment), the     *)
(* status facade (do_status, do_keepalive, do_reset_obstruction_map), the  *)
(* rolling obstruction log (log_obstruction_fraction_5min), the lazily     *)
(* created session handle (_get_context) and the background scheduler      *)
(* (_bg_loop) running beside the HTTP request handler.                     *)
(*                                                                         *)
(* Numbers: an obstruction fraction is an integer count of 1e-4 (0.02 is   *)
(* 200, 0.10 is 1000); a boresight error is an integer count of 1e-4       *)
(* degree (2.5 is 25000).  Time is whole seconds since the epoch, UTC.     *)
(***************************************************************************)
EXTENDS Integers, Sequences, FiniteSets, TLC

VARIABLES
    clock,              \* the system clock read by time.time() and datetime.now()
    bg,                 \* the scheduler thread: "running", "crashed", "exited"
    now,                \* _bg_loop: now (-1 before the first tick)
    now_hm,             \* _bg_loop: now_hm, as <<hour, minute>>
    next_ka,            \* _bg_loop: next_ka
    next_obs_5min,      \* _bg_loop: next_obs_5min
    last_reset_times,   \* _bg_loop: last_reset_times
    stop_bg,            \* _stop_bg
    ev,                 \* what the last tick did (history of the last tick)
    ka_at,              \* tick times of the last two scheduled keep-alives
    http,               \* what the request handler served last
    ticks,              \* iterations of the scheduler loop so far
    min_fired,          \* the minute sampled last and the resets fired within it
    fired_on,           \* per reset instant: the UTC day it fired last (-1: never)
    context,            \* _context: 0 is None, n > 0 is the n-th handle built
    created,            \* number of ChannelContext objects constructed
    lock,               \* holder of _context_lock ("" when free)
    gpc,                \* per thread: position inside _get_context
    gret,               \* per thread: what its last _get_context call returned
    gcalls,             \* per thread: _get_context calls completed
    file,               \* the backing file obstruction_5min.json
    apc,                \* position of the appender inside the log append
    adata,              \* the appender's local list `data`
    hist,               \* every sample ever written, in append order
    file0,              \* kind of backing file the run started from
    seen,               \* what a concurrent reader of the file saw last
    payload,            \* classifier run: the status payload
    result,             \* classifier run: what check_alignment returned
    rule,               \* classifier run: rules evaluated so far (5: returned)
    verdict,            \* check_alignment: verdict
    reasons             \* check_alignment: reasons

vars == <<clock, bg, now, now_hm, next_ka, next_obs_5min, last_reset_times,
          stop_bg, ev, ka_at, http, ticks, min_fired, fired_on, context, created, lock, gpc, gret, gcalls,
          file, apc, adata, hist, file0, seen, payload, result, rule, verdict, reasons>>

schedVars == <<clock, bg, now, now_hm, next_ka, next_obs_5min,
               last_reset_times, stop_bg, ev, ka_at, http, ticks, min_fired, fired_on>>
ctxVars   == <<context, created, lock, gpc, gret, gcalls>>
fileVars  == <<file, apc, adata, hist, file0, seen>>
alignVars == <<payload, result, rule, verdict, reasons>>

----------------------------------------------------------------------------
(* Program constants.                                                      *)

AUTO_KEEPALIVE_SEC == 120
OBSTRUCTION_5MIN_SEC == 300
MAX_KEEP == 2016
RESET_TIMES == {<<0, 0>>, <<12, 0>>}
WATCH_POINT == <<0, 1>>
BORESIGHT_LIMIT == 25000
OBSTRUCTION_HIGH == 1000
OBSTRUCTION_MED == 200
SLEEP_SEC == 1
KA_FIRST_DELAY == 2
OBS_FIRST_DELAY == 5

DAY == 86400

----------------------------------------------------------------------------
(* Python values found in a payload.                                       *)

None == [t |-> "none", n |-> 0, s |-> ""]
Num(n) == [t |-> "num", n |-> n, s |-> ""]
Str(s) == [t |-> "str", n |-> 0, s |-> s]
NumStr(n) == [t |-> "numstr", n |-> n, s |-> "#"]
Bool(b) == [t |-> "bool", n |-> IF b THEN 1 ELSE 0, s |-> ""]

\* Python truthiness, as used by `a or b`.
Truthy(v) ==
    CASE v.t = "none" -> FALSE
      [] v.t = "num" -> v.n # 0
      [] v.t = "str" -> v.s # ""
      [] v.t = "numstr" -> TRUE
      [] v.t = "bool" -> v.n = 1

\* `a or b`: a when a is truthy, else b (whatever b is).
Or(a, b) == IF Truthy(a) THEN a ELSE b

\* float(v) succeeds on numbers, booleans and numeric strings.
IsFloatable(v) == v.t \in {"num", "numstr", "bool"}
Float(v) == v.n

\* str.upper() on the state strings of the model.
Upper(s) ==
    CASE s = "connected" -> "CONNECTED"
      [] s = "Online" -> "ONLINE"
      [] s = "online" -> "ONLINE"
      [] s = "stowed" -> "STOWED"
      [] s = "unknown" -> "UNKNOWN"
      [] OTHER -> s

\* str(v), the letter case kept.
StrAsIs(v) ==
    CASE v.t = "str" -> v.s
      [] v.t = "numstr" -> v.s
      [] v.t = "num" -> ToString(v.n)
      [] v.t = "bool" -> IF v.n = 1 THEN "True" ELSE "False"
      [] OTHER -> "None"

\* str(v).upper()
StrUpper(v) ==
    CASE v.t = "str" -> Upper(v.s)
      [] v.t = "numstr" -> v.s
      [] v.t = "num" -> ToString(v.n)
      [] v.t = "bool" -> IF v.n = 1 THEN "TRUE" ELSE "FALSE"
      [] OTHER -> "NONE"

----------------------------------------------------------------------------
(* A status payload: the value at each key-path the program reads, None    *)
(* where the path is absent (raw.get(k) and g(raw, ...) both give None).   *)

StatePaths == <<"dish_state", "state", "status.dish_state">>
BoresightPaths == <<"boresight_error_deg", "alignment_stats.boresight_error_deg",
                    "pointing_stats.boresight_error_deg",
                    "pointing.boresight_error_deg">>
ObstructedPaths == <<"currently_obstructed", "obstruction_stats.currently_obstructed">>
FractionPaths == <<"obstruction_fraction", "obstruction_stats.fraction_obstructed",
                   "obstruction_stats.obstruction_fraction">>

Range(q) == {q[i] : i \in 1..Len(q)}

AllPaths == Range(StatePaths) \cup Range(BoresightPaths)
              \cup Range(ObstructedPaths) \cup Range(FractionPaths)

g(d, path) == d[path]

\* get(p1) or g(p2) or ... over an ordered list of key-paths.
RECURSIVE OrChain(_, _, _)
OrChain(d, paths, i) ==
    IF i = Len(paths) THEN g(d, paths[i])
    ELSE Or(g(d, paths[i]), OrChain(d, paths, i + 1))

Resolve(d, paths) == OrChain(d, paths, 1)

EmptyPayload == [p \in AllPaths |-> None]

----------------------------------------------------------------------------
(* check_alignment                                                         *)

ok_states == {"ONLINE", "CONNECTED"}
bad_states == {"STOWED", "STOWING", "UNSTOWING", "BOOTING", "STARTING",
               "CALIBRATING", "SEARCHING", "NO_SATS", "IDLE"}

\* Round v / unit to the nearest integer, ties to even.
RoundDiv(v, unit) ==
    LET q == v \div unit
        r == v % unit
    IN  IF 2 * r > unit \/ (2 * r = unit /\ q % 2 = 1) THEN q + 1 ELSE q

Digits(n, width) ==
    IF width = 2
    THEN ToString((n \div 10) % 10) \o ToString(n % 10)
    ELSE ToString((n \div 100) % 10) \o ToString((n \div 10) % 10) \o ToString(n % 10)

\* f"{v:.2f}" and f"{v:.3f}" of a non-negative value held in units of 1e-4.
Fmt2(v) == LET h == RoundDiv(v, 100) IN ToString(h \div 100) \o "." \o Digits(h % 100, 2)
Fmt3(v) == LET m == RoundDiv(v, 10) IN ToString(m \div 1000) \o "." \o Digits(m % 1000, 3)

\* "; ".join(reasons)
RECURSIVE Join(_)
Join(rs) ==
    IF Len(rs) = 0 THEN ""
    ELSE IF Len(rs) = 1 THEN rs[1]
    ELSE rs[1] \o "; " \o Join(Tail(rs))

\* A state rule that reports an absent state as NOT_OK.
StateRuleAbsentNotOk(status_raw) ==
    LET dish_state == Resolve(status_raw, StatePaths)
        dish_state_str == IF dish_state # None THEN StrUpper(dish_state) ELSE ""
    IN  IF dish_state_str \in ok_states
        THEN [verdict |-> "ALIGNED", reasons |-> <<>>, dish_state |-> dish_state]
        ELSE IF dish_state_str \in bad_states \/ dish_state_str # ""
        THEN [verdict |-> "NOT_OK", reasons |-> <<"state=" \o dish_state_str>>,
              dish_state |-> dish_state]
        ELSE [verdict |-> "NOT_OK", reasons |-> <<"state=unknown">>,
              dish_state |-> dish_state]

\* A state rule that gives no reason for an absent state.
StateRuleSilentUnknown(status_raw) ==
    LET dish_state == Resolve(status_raw, StatePaths)
        dish_state_str == IF dish_state # None THEN StrUpper(dish_state) ELSE ""
    IN  IF dish_state_str \in ok_states
        THEN [verdict |-> "ALIGNED", reasons |-> <<>>, dish_state |-> dish_state]
        ELSE IF dish_state_str \in bad_states \/ dish_state_str # ""
        THEN [verdict |-> "NOT_OK", reasons |-> <<"state=" \o dish_state_str>>,
              dish_state |-> dish_state]
        ELSE [verdict |-> "UNKNOWN", reasons |-> <<>>, dish_state |-> dish_state]

\* Rule 1 (lines 71-92): the dish state.
StateRule(status_raw) ==
    LET dish_state == Resolve(status_raw, StatePaths)
        dish_state_str == IF dish_state # None THEN StrUpper(dish_state) ELSE ""
    IN  IF dish_state_str \in ok_states
        THEN [verdict |-> "ALIGNED", reasons |-> <<>>, dish_state |-> dish_state]
        ELSE IF dish_state_str \in bad_states \/ dish_state_str # ""
        THEN [verdict |-> "NOT_OK", reasons |-> <<"state=" \o dish_state_str>>,
              dish_state |-> dish_state]
        ELSE [verdict |-> "UNKNOWN", reasons |-> <<"state=unknown">>,
              dish_state |-> dish_state]

\* A boresight rule that fires at the limit itself.
BoresightFiresAtLimit(status_raw) ==
    LET boresight == Resolve(status_raw, BoresightPaths)
    IN  boresight # None /\ IsFloatable(boresight) /\ Float(boresight) >= BORESIGHT_LIMIT

\* Rule 2 (lines 94-108): the boresight error.
BoresightFires(status_raw) ==
    LET boresight == Resolve(status_raw, BoresightPaths)
    IN  boresight # None /\ IsFloatable(boresight) /\ Float(boresight) > BORESIGHT_LIMIT

BoresightVal(status_raw) ==
    LET boresight == Resolve(status_raw, BoresightPaths)
    IN  IF boresight # None /\ IsFloatable(boresight) THEN Num(Float(boresight)) ELSE None

\* Rule 3 (lines 110-116): the currently-obstructed flag.
CurrentlyObstructed(status_raw) == Resolve(status_raw, ObstructedPaths)

ObstructedFires(status_raw) == CurrentlyObstructed(status_raw) = Bool(TRUE)

\* Rule 4 (lines 118-134): the obstruction fraction.
ObstructionVal(status_raw) ==
    LET obstruction_fraction == Resolve(status_raw, FractionPaths)
    IN  IF obstruction_fraction # None /\ IsFloatable(obstruction_fraction)
        THEN Num(Float(obstruction_fraction)) ELSE None

\* Thresholds that include their bound.
ObstructionLevelInclusive(status_raw) ==
    LET v == ObstructionVal(status_raw)
    IN  IF v = None THEN "none"
        ELSE IF v.n >= OBSTRUCTION_HIGH THEN "HIGH"
        ELSE IF v.n >= OBSTRUCTION_MED THEN "MED"
        ELSE "none"

ObstructionLevel(status_raw) ==
    LET v == ObstructionVal(status_raw)
    IN  IF v = None THEN "none"
        ELSE IF v.n > OBSTRUCTION_HIGH THEN "HIGH"
        ELSE IF v.n > OBSTRUCTION_MED THEN "MED"
        ELSE "none"

check_alignment(status_raw) ==
    LET r1 == StateRule(status_raw)
        v2 == IF BoresightFires(status_raw) THEN "NOT_OK" ELSE r1.verdict
        rs2 == IF BoresightFires(status_raw)
               THEN Append(r1.reasons,
                           "boresight>2.5deg (" \o Fmt2(BoresightVal(status_raw).n) \o "deg)")
               ELSE r1.reasons
        v3 == IF ObstructedFires(status_raw) THEN "NOT_OK" ELSE v2
        rs3 == IF ObstructedFires(status_raw)
               THEN Append(rs2, "currently_obstructed=true") ELSE rs2
        lvl == ObstructionLevel(status_raw)
        v4 == IF lvl # "none" THEN "NOT_OK" ELSE v3
        rs4 == IF lvl # "none"
               THEN Append(rs3, "obstruction=" \o lvl \o " ("
                                   \o Fmt3(ObstructionVal(status_raw).n) \o ")")
               ELSE rs3
        aligned == (v4 = "ALIGNED")
    IN  [aligned |-> aligned,
         verdict |-> IF aligned THEN "ALIGNED"
                     ELSE IF v4 # "UNKNOWN" THEN "NOT_OK" ELSE "UNKNOWN",
         explain |-> IF aligned THEN "OK"
                     ELSE IF Len(rs4) > 0 THEN Join(rs4) ELSE "Not okay",
         dish_state |-> r1.dish_state,
         boresight_error_deg |-> BoresightVal(status_raw),
         obstruction_fraction |-> ObstructionVal(status_raw),
         currently_obstructed |-> CurrentlyObstructed(status_raw),
         reasons |-> rs4]

----------------------------------------------------------------------------
(* The telemetry collaborator as one call sees it, and the status facade.  *)
(*   imp: whether `import starlink_grpc` succeeds                          *)
(*   cls: ChannelContext is "missing", constructs ("ok"), raises TypeError *)
(*        ("typeerror") or raises something else ("raises")                *)
(*   fn:  the operation is "missing", returns ("ok") or "raises"           *)
(*   raw: the payload a successful status fetch returns                    *)

ClsKinds == {"missing", "ok", "typeerror", "raises"}
FnKinds == {"missing", "ok", "raises"}

\* _get_context run to completion by one caller holding the lock throughout.
GetContext(ctx, cr, cls) ==
    IF ctx # 0
    THEN [context |-> ctx, created |-> cr, ret |-> ctx, raised |-> FALSE]
    ELSE IF cls = "missing"
    THEN [context |-> ctx, created |-> cr, ret |-> 0, raised |-> FALSE]
    ELSE IF cls = "ok"
    THEN [context |-> cr + 1, created |-> cr + 1, ret |-> cr + 1, raised |-> FALSE]
    ELSE [context |-> ctx, created |-> cr, ret |-> 0, raised |-> cls = "raises"]

\* The obstruction_fraction field of the alignment that do_status returns
\* (line 201, line 145): check_alignment(raw).obstruction_fraction.
check_alignment_obstruction(raw) == ObstructionVal(raw)

\* The summary's obstruction_fraction (lines 191-195).
SummaryFraction(raw) == Resolve(raw, FractionPaths)

\* What a facade call hands back.  ok and error are the "ok" and "error" keys of
\* the returned dict (error: the key is there), body says that summary, alignment
\* and raw are there, raised that no dict is returned because an exception left
\* the function.
Outcome(ok, error, body, raised, ctx, cr, sobs, aobs) ==
    [ok |-> ok, error |-> error, body |-> body, raised |-> raised,
     context |-> ctx, created |-> cr, summary_obs |-> sobs, alignment_obs |-> aobs]

\* {"ok": False, "error": ...}
Failure(ctx, cr) == Outcome(FALSE, TRUE, FALSE, FALSE, ctx, cr, None, None)

\* An exception on its way out of a try block.
Raised(ctx, cr) == Outcome(FALSE, FALSE, FALSE, TRUE, ctx, cr, None, None)

\* A facade without its except clause.
CatchNothing(r) == r

\* Lines 203-204 and 236-237: except Exception as e: return {"ok": False, ...}.
CatchException(r) == IF r.raised THEN Failure(r.context, r.created) ELSE r

\* do_status, without the summary fields that no caller in the program reads; of
\* the alignment it carries the obstruction fraction (the alignment of a payload
\* is check_alignment(raw)).
do_status(ctx, cr, env) ==
    IF ~env.imp
    THEN Failure(ctx, cr)
    ELSE CatchException(
           LET gc == GetContext(ctx, cr, env.cls)
           IN  IF gc.raised THEN Raised(gc.context, gc.created)
               ELSE IF env.fn = "missing" THEN Failure(gc.context, gc.created)
               ELSE IF env.fn = "raises" THEN Raised(gc.context, gc.created)
               ELSE Outcome(TRUE, FALSE, TRUE, FALSE, gc.context, gc.created,
                            SummaryFraction(env.raw),
                            check_alignment_obstruction(env.raw)))

\* do_keepalive: ok exactly when the wrapped status fetch is ok.
do_keepalive(ctx, cr, env) ==
    LET r == do_status(ctx, cr, env)
    IN  IF r.raised THEN r
        ELSE IF r.ok THEN Outcome(TRUE, FALSE, FALSE, FALSE, r.context, r.created, None, None)
        ELSE Failure(r.context, r.created)

do_reset_obstruction_map(ctx, cr, env) ==
    IF ~env.imp \/ env.fn = "missing"
    THEN Failure(ctx, cr)
    ELSE CatchException(
           LET gc == GetContext(ctx, cr, env.cls)
           IN  IF gc.raised \/ env.fn = "raises" THEN Raised(gc.context, gc.created)
               ELSE Outcome(TRUE, FALSE, FALSE, FALSE, gc.context, gc.created, None, None))

----------------------------------------------------------------------------
(* The rolling log: log_obstruction_fraction_5min.                         *)
(* The backing file is "missing", "unreadable" (open fails), "garbage"     *)
(* (not JSON), "nonlist" (JSON, not an array), "partial" (truncated by an  *)
(* open for writing, the array not yet complete) or "list".                *)

FileKinds == {"missing", "unreadable", "garbage", "nonlist", "partial", "list"}

File(kind, data) == [kind |-> kind, data |-> data]

Entry(ts, obs_f) ==
    [timestamp |-> ts, obstruction_fraction |-> obs_f, obstruction_percent |-> 10 * obs_f]

\* A logging action that records 0.0 when it finds no usable fraction.
ObsToLogDefaultZero(status) ==
    LET obs == IF status.summary_obs # None THEN status.summary_obs
               ELSE status.alignment_obs
    IN  IF ~status.ok THEN None
        ELSE IF obs = None THEN Num(0)
        ELSE IF ~IsFloatable(obs) THEN Num(0)
        ELSE Num(Float(obs))

\* Lines 246-255: the fraction to log, None when the tick is skipped.
ObsToLog(status) ==
    LET obs == IF status.summary_obs # None THEN status.summary_obs
               ELSE status.alignment_obs
    IN  IF ~status.ok THEN None
        ELSE IF obs = None THEN None
        ELSE IF ~IsFloatable(obs) THEN None
        ELSE Num(Float(obs))

\* Lines 264-272: the list loaded from the backing file.
LoadData(f) == IF f.kind = "list" THEN f.data ELSE <<>>

\* A truncation that keeps the oldest entries.
KeepFirst(data) ==
    IF Len(data) > MAX_KEEP THEN SubSeq(data, 1, MAX_KEEP) ELSE data

\* Lines 277-279: keep the last MAX_KEEP entries.
KeepLast(data) ==
    IF Len(data) > MAX_KEEP
    THEN SubSeq(data, Len(data) - MAX_KEEP + 1, Len(data))
    ELSE data

\* Lines 264-279: the list that is written back.
NewData(f, entry) == KeepLast(Append(LoadData(f), entry))

\* The whole function run without interruption: status is the fetched status,
\* ts the time of line 257 and writable whether open(path, "w") succeeds.
LogAppend(f, status, ts, writable) ==
    LET obs == ObsToLog(status)
    IN  IF obs = None THEN [file |-> f, outcome |-> "skip", wrote |-> <<>>]
        ELSE IF ~writable THEN [file |-> f, outcome |-> "raised", wrote |-> <<>>]
        ELSE [file |-> File("list", NewData(f, Entry(ts, obs.n))),
              outcome |-> "logged", wrote |-> <<Entry(ts, obs.n)>>]

----------------------------------------------------------------------------
(* Bounds and inputs of the scheduler model.                               *)

MaxTicks == 4
SlowCall == 61
ShortStall == 60

\* The process starts shortly before a reset instant.
StartTimes == {DAY \div 2 - 1, DAY - 1}

\* time.sleep(1) returns after one second, or later when the process is stalled
\* (the longest stall leaves the process suspended for almost a day).
Sleeps == {SLEEP_SEC, ShortStall, DAY - ShortStall}

\* How long a call to the collaborator takes.
Durations == {0, SlowCall}

Env(imp, cls, fn, raw) == [imp |-> imp, cls |-> cls, fn |-> fn, raw |-> raw]

With(d, path, v) == [d EXCEPT ![path] = v]

\* Payloads that differ in the obstruction fraction only.
SchedPayloads ==
    { EmptyPayload,
      With(EmptyPayload, "obstruction_fraction", Num(500)),
      With(EmptyPayload, "obstruction_fraction", Num(0)),
      With(EmptyPayload, "obstruction_stats.fraction_obstructed", Str("n/a")) }

FailingEnvs ==
    { Env(FALSE, "ok", "ok", EmptyPayload),
      Env(TRUE, "ok", "raises", EmptyPayload),
      Env(TRUE, "raises", "ok", EmptyPayload),
      Env(TRUE, "missing", "missing", EmptyPayload) }

KaEnvs == FailingEnvs \cup { Env(TRUE, "ok", "ok", EmptyPayload),
                             Env(TRUE, "typeerror", "ok", EmptyPayload) }

ResetEnvs == KaEnvs

ObsEnvs == FailingEnvs \cup { Env(TRUE, "ok", "ok", p) : p \in SchedPayloads }

\* datetime.now(timezone.utc).strftime("%H:%M") as <<hour, minute>>.
HM(t) == <<(t % DAY) \div 3600, (t % 3600) \div 60>>

NoEv == [ka |-> "none", rs |-> "none", obs |-> "none", obs_in |-> "none"]

IdleEnv == Env(TRUE, "missing", "ok", EmptyPayload)

----------------------------------------------------------------------------
(* _bg_loop                                                                *)

\* Line 295 and line 307: a deadline has been reached.
Due(n, deadline) == n >= deadline

\* A scheduler that catches up: the deadline advances from the missed deadline.
NextKaCatchUp(n, old, ok) == old + AUTO_KEEPALIVE_SEC

\* Line 298: the next keep-alive deadline (ok: what do_keepalive reported).
NextKa(n, old, ok) == n + AUTO_KEEPALIVE_SEC

\* Line 301: the reset fires.
ResetDue(hm, fired) == hm \in RESET_TIMES /\ hm \notin fired

\* Line 304: the instant is marked as fired (ok: what the reset reported).
MarkFired(fired, hm, ok) == fired \cup {hm}

\* Lines 305-306: the fired-set is cleared at the watch-point.
ClearAt(hm, fired) == IF hm = WATCH_POINT THEN {} ELSE fired

\* Line 310: the next logging deadline.
NextObs(n, old) == n + OBSTRUCTION_5MIN_SEC

\* What a due keep-alive can do: its result and how long the call took.
KaCalls(due, ctx, cr) ==
    IF due
    THEN {[r |-> do_keepalive(ctx, cr, e), d |-> d] : e \in KaEnvs, d \in Durations}
    ELSE {[r |-> Failure(ctx, cr), d |-> 0]}

\* What a due reset can do.
ResetCalls(due, ctx, cr) ==
    IF due
    THEN {[r |-> do_reset_obstruction_map(ctx, cr, e), d |-> 0] : e \in ResetEnvs}
    ELSE {[r |-> Failure(ctx, cr), d |-> 0]}

\* What the collaborator hands to a status fetch: a failure, or a payload whose
\* obstruction fraction is absent at every key-path, non-numeric, zero or a
\* non-zero number.
FetchKind(ok, e) ==
    LET present == {p \in Range(FractionPaths) : e.raw[p] # None}
    IN  IF ~ok THEN "fetchfail"
        ELSE IF present = {} THEN "absent"
        ELSE IF \A p \in present : ~IsFloatable(e.raw[p]) THEN "nonnumeric"
        ELSE IF \A p \in present : IsFloatable(e.raw[p]) /\ Float(e.raw[p]) = 0 THEN "zero"
        ELSE "numeric"

\* What a due logging action can do: t is the time it starts at.
LogCall(f, ctx, cr, e, t, d, w) ==
    LET st == do_status(ctx, cr, e)
        la == LogAppend(f, st, t + d, w)
    IN  [file |-> la.file, outcome |-> la.outcome, wrote |-> la.wrote,
         context |-> st.context, created |-> st.created, d |-> d,
         input |-> FetchKind(st.ok, e)]

LogCalls(due, f, ctx, cr, t) ==
    IF due
    THEN {LogCall(f, ctx, cr, e, t, 0, w) : e \in ObsEnvs, w \in BOOLEAN}
    ELSE {[file |-> f, outcome |-> "none", wrote |-> <<>>,
           context |-> ctx, created |-> cr, d |-> 0, input |-> "none"]}

\* A loop that never looks at the shutdown flag.
LoopForever(stop) == TRUE

\* Line 293: while not _stop_bg.is_set().
LoopCondition(stop) == ~stop

\* One iteration of the loop, lines 293-311, while fewer than k were made.
TickUpTo(k) ==
    /\ bg = "running" /\ LoopCondition(stop_bg) /\ ticks < k
    /\ \E ka \in KaCalls(Due(clock, next_ka), context, created) :
       \E hm \in {HM(clock + ka.d)} :
       \E rs \in ResetCalls(ResetDue(hm, last_reset_times), ka.r.context, ka.r.created) :
       \E la \in LogCalls(Due(clock, next_obs_5min), file, rs.r.context, rs.r.created,
                          clock + ka.d + rs.d) :
       \E sl \in (IF la.outcome = "raised" THEN {0} ELSE Sleeps) :
           LET n == clock
               kaDue == Due(n, next_ka)
               rsDue == ResetDue(hm, last_reset_times)
               obDue == Due(n, next_obs_5min)
               crashed == la.outcome = "raised"
           IN  /\ now' = n
               /\ now_hm' = hm
               /\ next_ka' = IF kaDue THEN NextKa(n, next_ka, ka.r.ok) ELSE next_ka
               /\ last_reset_times' =
                      ClearAt(hm, IF rsDue THEN MarkFired(last_reset_times, hm, rs.r.ok)
                                  ELSE last_reset_times)
               /\ next_obs_5min' = IF obDue /\ ~crashed
                                   THEN NextObs(n, next_obs_5min) ELSE next_obs_5min
               /\ bg' = IF crashed THEN "crashed" ELSE "running"
               /\ clock' = n + ka.d + rs.d + la.d + sl
               /\ ev' = [ka |-> IF ~kaDue THEN "none" ELSE IF ka.r.ok THEN "ok" ELSE "fail",
                         rs |-> IF ~rsDue THEN "none" ELSE IF rs.r.ok THEN "ok" ELSE "fail",
                         obs |-> la.outcome, obs_in |-> la.input]
               /\ ka_at' = IF kaDue THEN <<ka_at[2], n>> ELSE ka_at
               /\ ticks' = ticks + 1
               /\ min_fired' =
                      LET m == (n + ka.d) \div 60
                          c == IF rsDue THEN 1 ELSE 0
                      IN  IF m = min_fired.m THEN [m |-> m, n |-> min_fired.n + c]
                          ELSE [m |-> m, n |-> c]
               /\ fired_on' = IF rsDue THEN [fired_on EXCEPT ![hm] = (n + ka.d) \div DAY]
                              ELSE fired_on
               /\ context' = la.context
               /\ created' = la.created
               /\ file' = la.file
               /\ hist' = hist \o la.wrote
    /\ UNCHANGED <<stop_bg, http, lock, gpc, gret, gcalls, apc, adata, file0, seen,
                   alignVars>>

Tick == TickUpTo(MaxTicks)

\* Line 293: the loop sees the shutdown flag and returns.
BgExit ==
    /\ bg = "running" /\ ~LoopCondition(stop_bg)
    /\ bg' = "exited"
    /\ UNCHANGED <<clock, now, now_hm, next_ka, next_obs_5min, last_reset_times,
                   stop_bg, ev, ka_at, http, ticks, min_fired, fired_on>>
    /\ UNCHANGED <<ctxVars, fileVars, alignVars>>

\* _stop_bg.set(): the shutdown signal.
SetStop ==
    /\ ~stop_bg
    /\ stop_bg' = TRUE
    /\ UNCHANGED <<clock, bg, now, now_hm, next_ka, next_obs_5min, last_reset_times,
                   ev, ka_at, http, ticks, min_fired, fired_on>>
    /\ UNCHANGED <<ctxVars, fileVars, alignVars>>

----------------------------------------------------------------------------
(* The request handler: Handler.do_GET and Handler.do_POST.                *)

Requests == {"GET /api/health", "GET /api/status", "POST /api/keepalive",
             "POST /api/reset"}

\* Whether the collaborator fails under the call: the module does not load, the
\* operation is missing, or the session constructor or the operation raises
\* (the constructor runs only while no session is cached, and for a reset only
\* once the operation was found).
CollaboratorFails(req, ctx, env) ==
    IF req = "GET /api/health" THEN FALSE
    ELSE \/ ~env.imp
         \/ env.fn # "ok"
         \/ (ctx = 0 /\ env.cls = "raises")

\* GET /api/health: no call to the facade.
Health(ctx, cr) == Outcome(TRUE, FALSE, FALSE, FALSE, ctx, cr, None, None)

\* A status handler that also appends a sample to the log.
HandlerTouchesLog(req) == IF req = "GET /api/status" THEN {"log"} ELSE {}

\* Handlers that re-arm the keep-alive timer and mark the reset as fired.
HandlerTouchesTimers(req) ==
    CASE req = "POST /api/keepalive" -> {"next_ka"}
      [] req = "POST /api/reset" -> {"last_reset_times"}
      [] OTHER -> {}

\* Lines 841-876: what a handler writes besides the response and the session
\* built inside the facade: nothing.  The deadlines and the fired-set are locals
\* of _bg_loop (lines 286-288), and no handler calls the log append.
HandlerTouches(req) == {}

Serve ==
    \E req \in Requests, env \in KaEnvs :
        LET r == CASE req = "GET /api/status" -> do_status(context, created, env)
                   [] req = "POST /api/keepalive" -> do_keepalive(context, created, env)
                   [] req = "POST /api/reset" -> do_reset_obstruction_map(context, created, env)
                   [] OTHER -> Health(context, created)
        IN  /\ http' = [req |-> req, ok |-> r.ok, error |-> r.error, body |-> r.body,
                        raised |-> r.raised,
                        failed |-> CollaboratorFails(req, context, env),
                        status_ok |-> do_status(context, created, env).ok,
                        during |-> apc]
            /\ context' = r.context
            /\ created' = r.created
            /\ file' = IF "log" \in HandlerTouches(req)
                       THEN File("list", NewData(file, Entry(clock, 0))) ELSE file
            /\ hist' = IF "log" \in HandlerTouches(req)
                       THEN Append(hist, Entry(clock, 0)) ELSE hist
            /\ next_ka' = IF "next_ka" \in HandlerTouches(req)
                          THEN clock + AUTO_KEEPALIVE_SEC ELSE next_ka
            /\ last_reset_times' = IF "last_reset_times" \in HandlerTouches(req)
                                   THEN last_reset_times \cup {HM(clock)}
                                   ELSE last_reset_times
            /\ UNCHANGED <<clock, bg, now, now_hm, next_obs_5min,
                           stop_bg, ev, ka_at, ticks, min_fired, fired_on>>
            /\ UNCHANGED <<lock, gpc, gret, gcalls, apc, adata, file0, seen, alignVars>>

----------------------------------------------------------------------------
(* The threads, the initial state, and the scheduler on its own.           *)

Threads == {"bg", "http"}

CtxIdle ==
    /\ context = 0 /\ created = 0 /\ lock = ""
    /\ gpc = [t \in Threads |-> "idle"]
    /\ gret = [t \in Threads |-> 0]
    /\ gcalls = [t \in Threads |-> 0]

\* Lines 68-69: no rule evaluated yet.
RulesIdle ==
    /\ rule = 0
    /\ verdict = "UNKNOWN"
    /\ reasons = <<>>

AlignIdle ==
    /\ payload = EmptyPayload
    /\ result = check_alignment(EmptyPayload)
    /\ RulesIdle

\* Nobody is inside the log append and nobody has read the file.
FileIdle ==
    /\ file0 = [kind |-> file.kind, len |-> Len(file.data)]
    /\ apc = "idle"
    /\ adata = <<>>
    /\ hist = file.data
    /\ seen = [kind |-> "nothing", len |-> 0]

SchedStart(t0) ==
    /\ clock = t0
    /\ bg = "running"
    /\ now = -1
    /\ now_hm = <<-1, -1>>
    /\ next_ka = t0 + KA_FIRST_DELAY
    /\ next_obs_5min = t0 + OBS_FIRST_DELAY
    /\ last_reset_times = {}
    /\ stop_bg = FALSE
    /\ ev = NoEv
    /\ ka_at = <<-1, -1>>
    /\ http = [req |-> "", ok |-> FALSE, error |-> FALSE, body |-> FALSE,
               raised |-> FALSE, failed |-> FALSE, status_ok |-> FALSE,
               during |-> "idle"]
    /\ ticks = 0
    /\ min_fired = [m |-> -1, n |-> 0]
    /\ fired_on = [hm \in RESET_TIMES |-> -1]

Init ==
    /\ \E t0 \in StartTimes : SchedStart(t0)
    /\ CtxIdle
    /\ AlignIdle
    /\ file \in {File("missing", <<>>), File("garbage", <<>>)}
    /\ FileIdle

Next == Tick

Spec == Init /\ [][Next]_vars

----------------------------------------------------------------------------
(* The scheduler with a shutdown signal.  The thread keeps being scheduled, *)
(* so a loop that can test the flag and return eventually does.            *)

StopTicks == 2

NextStop == TickUpTo(StopTicks) \/ SetStop \/ BgExit

SpecStop == Init /\ [][NextStop]_vars /\ WF_vars(BgExit)

----------------------------------------------------------------------------
(* The scheduler beside the request handler.                               *)

ServerTicks == 2

NextServer == TickUpTo(ServerTicks) \/ Serve

SpecServer == Init /\ [][NextServer]_vars

----------------------------------------------------------------------------
(* The log append step by step, beside a reader of the backing file.       *)

MaxAppends == 3

\* Fractions the logging action is handed.
LogFractions == {0, 500}

\* A log left by n earlier appends, five minutes apart.
Prior(n) == [i \in 1..n |-> Entry(OBSTRUCTION_5MIN_SEC * i, 500)]

StartFiles ==
    {File(k, <<>>) : k \in {"missing", "unreadable", "garbage", "nonlist"}}
      \cup {File("list", Prior(n)) : n \in {0, 1, MAX_KEEP - 1, MAX_KEEP}}

\* Lines 257-279: the entry is built, the file is loaded and the new list computed.
AppendLoad ==
    /\ apc \in {"idle", "raised"}
    /\ Len(hist) < file0.len + MaxAppends
    /\ \E obs_f \in LogFractions :
           adata' = NewData(file, Entry(clock, obs_f))
    /\ apc' = "loaded"
    /\ UNCHANGED <<file, hist, file0, seen, schedVars, ctxVars, alignVars>>

\* Line 281: open(path, "w") truncates the file, or raises.
AppendOpen ==
    /\ apc = "loaded"
    /\ \E writable \in BOOLEAN :
           IF writable
           THEN /\ file' = File("partial", <<>>)
                /\ apc' = "writing"
           ELSE /\ file' = file
                /\ apc' = "raised"
    /\ UNCHANGED <<adata, hist, file0, seen, schedVars, ctxVars, alignVars>>

\* Line 282: json.dump has written some of the entries to the file.
AppendFlush ==
    /\ apc = "writing"
    /\ file.data = <<>>
    /\ Len(adata) >= 2
    /\ \E n \in {1, Len(adata) - 1} : file' = File("partial", SubSeq(adata, 1, n))
    /\ UNCHANGED <<apc, adata, hist, file0, seen, schedVars, ctxVars, alignVars>>

\* Line 282 and the end of the with block: the array is complete, the file closed.
AppendClose ==
    /\ apc = "writing"
    /\ file' = File("list", adata)
    /\ hist' = Append(hist, adata[Len(adata)])
    /\ apc' = "idle"
    /\ clock' = clock + OBSTRUCTION_5MIN_SEC
    /\ UNCHANGED <<adata, file0, seen>>
    /\ UNCHANGED <<bg, now, now_hm, next_ka, next_obs_5min, last_reset_times,
                   stop_bg, ev, ka_at, http, ticks, min_fired, fired_on, ctxVars, alignVars>>

\* Another process reads the backing file.
ReadFile ==
    /\ seen' = [kind |-> file.kind, len |-> Len(file.data)]
    /\ UNCHANGED <<file, apc, adata, hist, file0, schedVars, ctxVars, alignVars>>

InitLog ==
    /\ file \in StartFiles
    /\ FileIdle
    /\ SchedStart(OBSTRUCTION_5MIN_SEC * (Len(file.data) + 1))
    /\ CtxIdle
    /\ AlignIdle

NextLog == AppendLoad \/ AppendOpen \/ AppendFlush \/ AppendClose \/ ReadFile

SpecLog == InitLog /\ [][NextLog]_vars

----------------------------------------------------------------------------
(* The scheduler thread inside the log append, step by step, while the     *)
(* request handler thread serves requests.                                 *)

NextShared == AppendLoad \/ AppendOpen \/ AppendFlush \/ AppendClose \/ Serve

SpecShared == Init /\ [][NextShared]_vars

----------------------------------------------------------------------------
(* _get_context step by step: the scheduler thread and the request handler *)
(* thread calling it (from do_status and do_reset_obstruction_map).        *)

MaxCalls == 2

\* A _get_context that does not wait for the lock.
LockIgnored(l) == TRUE

\* Line 44: the lock can be taken.
LockFree(l) == l = ""

\* A thread enters _get_context.
GCall(t) ==
    /\ gpc[t] = "idle"
    /\ gcalls[t] < MaxCalls
    /\ gpc' = [gpc EXCEPT ![t] = "acquire"]
    /\ UNCHANGED <<context, created, lock, gret, gcalls, schedVars, fileVars, alignVars>>

\* Line 44: with _context_lock.
GAcquire(t) ==
    /\ gpc[t] = "acquire"
    /\ LockFree(lock)
    /\ lock' = t
    /\ gpc' = [gpc EXCEPT ![t] = "check"]
    /\ UNCHANGED <<context, created, gret, gcalls, schedVars, fileVars, alignVars>>

\* Lines 45-46: an existing handle is returned (and the lock released).
GCheck(t) ==
    /\ gpc[t] = "check"
    /\ IF context # 0
       THEN /\ gret' = [gret EXCEPT ![t] = context]
            /\ gcalls' = [gcalls EXCEPT ![t] = @ + 1]
            /\ gpc' = [gpc EXCEPT ![t] = "idle"]
            /\ lock' = IF lock = t THEN "" ELSE lock
       ELSE /\ gpc' = [gpc EXCEPT ![t] = "construct"]
            /\ UNCHANGED <<gret, gcalls, lock>>
    /\ UNCHANGED <<context, created, schedVars, fileVars, alignVars>>

\* Lines 48-56: the handle is constructed, or the call gives up.
GConstruct(t) ==
    /\ gpc[t] = "construct"
    /\ \E cls \in ClsKinds :
           IF cls = "ok"
           THEN /\ created' = created + 1
                /\ context' = created + 1
                /\ gret' = [gret EXCEPT ![t] = created + 1]
           ELSE /\ UNCHANGED <<created, context>>
                /\ gret' = [gret EXCEPT ![t] = 0]
    /\ gcalls' = [gcalls EXCEPT ![t] = @ + 1]
    /\ gpc' = [gpc EXCEPT ![t] = "idle"]
    /\ lock' = IF lock = t THEN "" ELSE lock
    /\ UNCHANGED <<schedVars, fileVars, alignVars>>

InitCtx ==
    /\ CtxIdle
    /\ SchedStart(0)
    /\ file = File("missing", <<>>)
    /\ FileIdle
    /\ AlignIdle

NextCtx == \E t \in Threads : GCall(t) \/ GAcquire(t) \/ GCheck(t) \/ GConstruct(t)

SpecCtx == InitCtx /\ [][NextCtx]_vars

----------------------------------------------------------------------------
(* check_alignment applied to a payload.                                   *)

NoResult == [aligned |-> FALSE, verdict |-> "", explain |-> "", dish_state |-> None,
             boresight_error_deg |-> None, obstruction_fraction |-> None,
             currently_obstructed |-> None, reasons |-> <<>>]

\* The values tried at each key-path (None: the path is absent).
PathValues ==
    [p \in AllPaths |->
        CASE p = "dish_state" -> {None, Str(""), Str("online"), Str("STOWED")}
          [] p = "state" -> {None, Str("CONNECTED")}
          [] p = "status.dish_state" -> {None, Str("stowed")}
          [] p = "boresight_error_deg" -> {None, Num(0), Num(25000), Num(25001)}
          [] p = "alignment_stats.boresight_error_deg" -> {None, Str("bad")}
          [] p = "pointing_stats.boresight_error_deg" -> {None}
          [] p = "pointing.boresight_error_deg" -> {None, Num(31416)}
          [] p = "currently_obstructed" -> {None, Bool(TRUE), Bool(FALSE)}
          [] p = "obstruction_stats.currently_obstructed" -> {None, Bool(TRUE)}
          [] p = "obstruction_fraction" ->
                 {None, Num(0), Num(200), Num(201), Num(1000), Num(1001)}
          [] p = "obstruction_stats.fraction_obstructed" -> {None, Str("n/a")}
          [] p = "obstruction_stats.obstruction_fraction" -> {None, Num(500)}]

PathSeq == StatePaths \o BoresightPaths \o ObstructedPaths \o FractionPaths

PathIndex(p) == CHOOSE i \in 1..Len(PathSeq) : PathSeq[i] = p

\* Every payload that holds one of the values tried at each key-path.
AlignPayloads ==
    LET V(i) == PathValues[PathSeq[i]]
    IN  { [p \in AllPaths |-> v[PathIndex(p)]] :
            v \in V(1) \X V(2) \X V(3) \X V(4) \X V(5) \X V(6)
                    \X V(7) \X V(8) \X V(9) \X V(10) \X V(11) \X V(12) }

Classify ==
    /\ result = NoResult
    /\ result' = check_alignment(payload)
    /\ UNCHANGED <<payload, rule, verdict, reasons, schedVars, ctxVars, fileVars>>

InitAlign ==
    /\ payload \in AlignPayloads
    /\ result = NoResult
    /\ RulesIdle
    /\ SchedStart(0)
    /\ CtxIdle
    /\ file = File("missing", <<>>)
    /\ FileIdle

NextAlign == Classify

SpecAlign == InitAlign /\ [][NextAlign]_vars

----------------------------------------------------------------------------
(* check_alignment rule by rule: the state rule, the boresight rule, the   *)
(* currently-obstructed rule, the obstruction rule, then the return.       *)

\* A later rule that cannot override UNKNOWN.
RuleVerdictKeepsUnknown(fires, v) == IF fires /\ v # "UNKNOWN" THEN "NOT_OK" ELSE v

\* A later rule that sets the verdict afresh: ALIGNED when it does not fire.
RuleVerdictAfresh(fires, v) == IF fires THEN "NOT_OK" ELSE "ALIGNED"

\* Lines 104-105, 114-115, 127-131: a rule that fires sets NOT_OK, a rule that
\* does not fire leaves the verdict alone.
RuleVerdict(fires, v) == IF fires THEN "NOT_OK" ELSE v

\* A reason put in front of the list.
AddReasonFront(rs, r) == <<r>> \o rs

\* Lines 106, 116, 129, 132: reasons.append(...).
AddReason(rs, r) == Append(rs, r)

\* Line 106: the boresight reason.
BoresightReason(status_raw) ==
    "boresight>2.5deg (" \o Fmt2(BoresightVal(status_raw).n) \o "deg)"

\* Lines 129 and 132: the obstruction reason.
ObstructionReason(status_raw) ==
    "obstruction=" \o ObstructionLevel(status_raw) \o " ("
        \o Fmt3(ObstructionVal(status_raw).n) \o ")"

\* Lines 71-92.
RuleState ==
    /\ rule = 0
    /\ verdict' = StateRule(payload).verdict
    /\ reasons' = reasons \o StateRule(payload).reasons
    /\ rule' = 1
    /\ UNCHANGED <<payload, result, schedVars, ctxVars, fileVars>>

\* Lines 94-108.
RuleBoresight ==
    /\ rule = 1
    /\ verdict' = RuleVerdict(BoresightFires(payload), verdict)
    /\ reasons' = IF BoresightFires(payload)
                  THEN AddReason(reasons, BoresightReason(payload)) ELSE reasons
    /\ rule' = 2
    /\ UNCHANGED <<payload, result, schedVars, ctxVars, fileVars>>

\* Lines 110-116.
RuleObstructed ==
    /\ rule = 2
    /\ verdict' = RuleVerdict(ObstructedFires(payload), verdict)
    /\ reasons' = IF ObstructedFires(payload)
                  THEN AddReason(reasons, "currently_obstructed=true") ELSE reasons
    /\ rule' = 3
    /\ UNCHANGED <<payload, result, schedVars, ctxVars, fileVars>>

\* Lines 118-134.
RuleObstruction ==
    /\ rule = 3
    /\ verdict' = RuleVerdict(ObstructionLevel(payload) # "none", verdict)
    /\ reasons' = IF ObstructionLevel(payload) # "none"
                  THEN AddReason(reasons, ObstructionReason(payload)) ELSE reasons
    /\ rule' = 4
    /\ UNCHANGED <<payload, result, schedVars, ctxVars, fileVars>>

\* Lines 136-148.
Return ==
    /\ rule = 4
    /\ LET aligned == (verdict = "ALIGNED")
       IN  result' =
             [aligned |-> aligned,
              verdict |-> IF aligned THEN "ALIGNED"
                          ELSE IF verdict # "UNKNOWN" THEN "NOT_OK" ELSE "UNKNOWN",
              explain |-> IF aligned THEN "OK"
                          ELSE IF Len(reasons) > 0 THEN Join(reasons) ELSE "Not okay",
              dish_state |-> StateRule(payload).dish_state,
              boresight_error_deg |-> BoresightVal(payload),
              obstruction_fraction |-> ObstructionVal(payload),
              currently_obstructed |-> CurrentlyObstructed(payload),
              reasons |-> reasons]
    /\ rule' = 5
    /\ UNCHANGED <<payload, verdict, reasons, schedVars, ctxVars, fileVars>>

InitRules == InitAlign

NextRules == RuleState \/ RuleBoresight \/ RuleObstructed \/ RuleObstruction \/ Return

SpecRules == InitRules /\ [][NextRules]_vars

----------------------------------------------------------------------------
(* Properties of the scheduler (Spec).                                     *)

\* C1: in a minute equal to a reset instant the reset fires exactly once, however
\* many ticks sample that minute and whatever the reset reports; and after a tick
\* that samples the 00:01 watch-point the fired-set is empty.
C1_ResetExactlyOncePerMinute ==
    /\ (ticks > 0 /\ now_hm \in RESET_TIMES) => min_fired.n = 1
    /\ (ticks > 0 /\ now_hm = WATCH_POINT) => last_reset_times = {}

\* C3: whenever the scheduled keep-alive fires at tick time now, the next deadline
\* is now + 120 s whatever do_keepalive reported, and the firing is at least 120 s
\* of tick time after the previous one (no retry, no catch-up burst).
C3_KeepAliveCadence ==
    [][(ticks' # ticks /\ ev'.ka # "none")
         => /\ next_ka' = now' + AUTO_KEEPALIVE_SEC
            /\ ka_at[2] >= 0 => now' - ka_at[2] >= AUTO_KEEPALIVE_SEC]_vars

\* A failed keep-alive fired after a stall that spans several intervals.
C3_Witness ==
    /\ ev.ka = "fail"
    /\ ka_at[1] >= 0
    /\ ka_at[2] - ka_at[1] >= 3 * AUTO_KEEPALIVE_SEC
    /\ next_ka = ka_at[2] + AUTO_KEEPALIVE_SEC

\* C4: the timers are independent: a reset instant that is due when a tick begins
\* (the clock is in a reset minute not yet fired) is fired by that tick, whatever
\* the keep-alive that runs before it does and however long it takes.
C4_DueResetFires ==
    [][(ticks' # ticks /\ ResetDue(HM(clock), last_reset_times))
         => ev'.rs # "none"]_vars

\* C5: no failure of a scheduled action terminates the scheduler loop.
C5_LoopSurvives == bg # "crashed"

\* C7: when the logging timer fires and the status fetch fails, or the fraction
\* is absent or not a number, the log file is unchanged, no error leaves the
\* action and the next logging deadline is now + 300 s.
C7_SkippedTick ==
    [][(ticks' # ticks /\ ev'.obs_in \in {"fetchfail", "absent", "nonnumeric"})
         => /\ file' = file
            /\ hist' = hist
            /\ bg' = "running"
            /\ ev'.obs = "skip"
            /\ next_obs_5min' = now' + OBSTRUCTION_5MIN_SEC]_vars

\* The logging timer fired on a payload whose fraction is not a number.
C7_Witness ==
    /\ ev.obs_in = "nonnumeric"
    /\ ev.obs = "skip"
    /\ next_obs_5min = now + OBSTRUCTION_5MIN_SEC

\* C20: on every tick that samples a reset instant which has not fired during
\* the UTC day of the sample, the reset is invoked and the instant is then
\* marked as fired on that day: the fired-set never holds that instant from an
\* earlier day.
C20_FiresOncePerDay ==
    [][(/\ ticks' # ticks
        /\ now_hm' \in RESET_TIMES
        /\ fired_on[now_hm'] # min_fired'.m \div 1440)
         => /\ ev'.rs # "none"
            /\ fired_on'[now_hm'] = min_fired'.m \div 1440]_vars

\* C13: whenever the logging action fires, the status fetch succeeds and the
\* payload carries a numeric obstruction fraction (zero included) at a recognized
\* key-path, exactly one sample is appended to the log and it is the last entry
\* of the file.
C13_NumericIsLogged ==
    [][(ticks' # ticks /\ ev'.obs_in \in {"zero", "numeric"})
         => /\ ev'.obs = "logged"
            /\ Len(hist') = Len(hist) + 1
            /\ file'.kind = "list"
            /\ file'.data[Len(file'.data)] = hist'[Len(hist')]]_vars

----------------------------------------------------------------------------
(* Properties of the scheduler with a shutdown signal (SpecStop).          *)

\* C14: once the shutdown flag is set no further iteration begins (no keep-alive,
\* reset or logging action starts, no deadline moves, the log is not written),
\* the flag stays set, and the loop eventually exits.
C14_StopsWithinOneTick ==
    /\ [][stop_bg => /\ stop_bg'
                     /\ ticks' = ticks
                     /\ ev' = ev
                     /\ <<next_ka, next_obs_5min, last_reset_times>>' =
                            <<next_ka, next_obs_5min, last_reset_times>>
                     /\ file' = file]_vars
    /\ (stop_bg ~> bg # "running")

\* The flag was set after the loop had run its iterations, and the loop returned.
C14_Witness ==
    /\ stop_bg
    /\ bg = "exited"
    /\ ticks = StopTicks
    /\ ev.ka # "none"

----------------------------------------------------------------------------
(* Properties of the facade as the request handler calls it (SpecServer).  *)

Served == http.req # ""

\* C15: no exception leaves do_status, do_keepalive or do_reset_obstruction_map;
\* a failure of the collaborator comes back as ok = false with an error message,
\* a call without failure as ok = true (for do_status with summary, alignment and
\* raw, empty payload included); do_keepalive is ok exactly when the status fetch
\* it wraps is ok.
C15_FacadeNeverRaises ==
    Served
      => /\ ~http.raised
         /\ http.failed => (~http.ok /\ http.error)
         /\ ~http.failed => (http.ok /\ ~http.error)
         /\ (http.req = "GET /api/status" /\ http.ok) => http.body
         /\ http.req = "POST /api/keepalive" => (http.ok <=> http.status_ok)

\* A manual keep-alive whose status fetch failed while a session was cached.
C15_Witness ==
    /\ http.req = "POST /api/keepalive"
    /\ http.failed
    /\ ~http.ok
    /\ http.error
    /\ ~http.raised
    /\ context # 0

\* C23: a step that is not an iteration of the loop (a served request) leaves the
\* keep-alive deadline, the logging deadline and the fired-set as they were; the
\* next iteration at or after the keep-alive deadline fires the scheduled
\* keep-alive, and one that samples a reset instant not in the fired-set fires
\* the scheduled reset, whatever was served in between.
C23_ServeLeavesScheduler ==
    /\ [][ticks' = ticks
            => <<next_ka, next_obs_5min, last_reset_times>>'
                 = <<next_ka, next_obs_5min, last_reset_times>>]_vars
    /\ [][(ticks' # ticks /\ Due(clock, next_ka)) => ev'.ka # "none"]_vars
    /\ [][(ticks' # ticks /\ ResetDue(now_hm', last_reset_times)) => ev'.rs # "none"]_vars

\* A manual keep-alive succeeded before any scheduled one fired: the first
\* deadline is where the loop put it and has been reached.
C23_Witness ==
    /\ http.req = "POST /api/keepalive"
    /\ http.ok
    /\ ticks = 1
    /\ ka_at[2] < 0
    /\ next_ka = now + KA_FIRST_DELAY
    /\ clock >= next_ka

----------------------------------------------------------------------------
(* Properties of the log append (SpecLog).                                 *)

Min(a, b) == IF a < b THEN a ELSE b

\* C2: starting from a missing or valid log file, after every append the file
\* holds at most MAX_KEEP samples and is exactly the most recent
\* min(total, MAX_KEEP) samples ever appended, oldest first and unchanged.
C2_LogBound ==
    (file0.kind \in {"missing", "list"} /\ apc \in {"idle", "raised"} /\ Len(hist) > file0.len)
      => /\ file.kind = "list"
         /\ Len(file.data) = Min(Len(hist), MAX_KEEP)
         /\ file.data = SubSeq(hist, Len(hist) - Len(file.data) + 1, Len(hist))

\* Appends have pushed the oldest samples out of a full log.
C2_Witness ==
    /\ file0.kind = "list"
    /\ apc = "idle"
    /\ Len(hist) >= MAX_KEEP + 2
    /\ Len(file.data) = MAX_KEEP
    /\ file.data[1] = hist[Len(hist) - MAX_KEEP + 1]
    /\ file.data[1] # hist[1]

\* C8: an append made while the backing file is missing, unreadable or not a JSON
\* array does not raise, and the log then holds exactly the appended sample.
C8_AppendOnBadFile ==
    file0.kind \in {"missing", "unreadable", "garbage", "nonlist"}
      => /\ apc # "raised"
         /\ (apc = "idle" /\ Len(hist) = 1) => file = File("list", hist)

\* C9: a reader of a valid log file that runs beside an append sees the complete
\* previous array or the complete new one, never an empty or partial file.
C9_ReaderSeesCompleteFile ==
    file0.kind = "list" => seen.kind \in {"nothing", "list"}

----------------------------------------------------------------------------
(* Properties of the log append beside the request handler (SpecShared).   *)

\* C22: the log has one writer.  Every step that changes the backing file or adds
\* a sample is a step of the scheduler thread's append, no served request changes
\* them, and the file the appender loaded is still the file when it writes (no
\* other read-modify-write cycle ran in between).
C22_SingleLogWriter ==
    /\ [][(file' # file \/ hist' # hist)
            => (apc \in {"loaded", "writing"} /\ http' = http)]_vars
    /\ [][http' # http => (file' = file /\ hist' = hist)]_vars
    /\ [](apc = "loaded" => adata = NewData(file, adata[Len(adata)]))

\* A status request was served while the appender was rewriting the file, and
\* the append then completed with every sample in the file.
C22_Witness ==
    /\ http.req = "GET /api/status"
    /\ http.during = "writing"
    /\ apc = "idle"
    /\ Len(hist) >= 2
    /\ file = File("list", hist)

----------------------------------------------------------------------------
(* Properties of _get_context (SpecCtx).                                   *)

\* C6: at most one handle is ever constructed; once _context is set it never
\* changes, and every call that returns after that returns that handle.
C6_OneContext ==
    /\ [](created <= 1)
    /\ [][context # 0 => context' = context]_vars
    /\ [][\A t \in Threads :
            (context # 0 /\ gcalls'[t] > gcalls[t]) => gret'[t] = context]_vars

\* Both threads went through _get_context, one built the handle, both hold it.
C6_Witness ==
    /\ created = 1
    /\ context = 1
    /\ \A t \in Threads : gcalls[t] >= 1 /\ gret[t] = context

----------------------------------------------------------------------------
(* Properties of check_alignment (SpecAlign).                              *)

Classified == result # NoResult

StateAbsent(d) == \A p \in Range(StatePaths) : d[p] = None

\* From the returned record: a rule after the state rule fired.
LaterRuleFired(r) ==
    \/ (r.boresight_error_deg # None /\ r.boresight_error_deg.n > BORESIGHT_LIMIT)
    \/ r.currently_obstructed = Bool(TRUE)
    \/ (r.obstruction_fraction # None /\ r.obstruction_fraction.n > OBSTRUCTION_MED)

\* C10 as stated: with no dish-state key-path present, whatever the other fields,
\* the verdict is UNKNOWN and the reasons contain "state=unknown".
C10_AbsentStateIsUnknown ==
    (Classified /\ StateAbsent(payload))
      => /\ result.verdict = "UNKNOWN"
         /\ "state=unknown" \in Range(result.reasons)

\* C10 amended: with no dish-state key-path present the reasons start with
\* "state=unknown"; the verdict is UNKNOWN when no later rule fires and NOT_OK
\* when one does, never ALIGNED.
C10_AbsentState ==
    (Classified /\ StateAbsent(payload))
      => /\ Len(result.reasons) >= 1
         /\ result.reasons[1] = "state=unknown"
         /\ result.verdict = IF LaterRuleFired(result) THEN "NOT_OK" ELSE "UNKNOWN"
         /\ ~result.aligned

\* No state in the payload and a boresight error above the limit: NOT_OK.
C10_Witness ==
    /\ Classified
    /\ StateAbsent(payload)
    /\ payload["boresight_error_deg"] = Num(25001)
    /\ result.verdict = "NOT_OK"
    /\ result.reasons[1] = "state=unknown"
    /\ Len(result.reasons) = 2

\* C12: in every result aligned is true exactly when the verdict is ALIGNED, the
\* reasons are non-empty whenever the verdict is not ALIGNED, explain is "OK"
\* exactly when aligned, and the fallback text "Not okay" is never returned.
C12_ResultInvariant ==
    Classified
      => /\ result.aligned <=> (result.verdict = "ALIGNED")
         /\ result.verdict # "ALIGNED" => Len(result.reasons) >= 1
         /\ (result.explain = "OK") <=> result.aligned
         /\ result.explain # "Not okay"

\* An empty payload: UNKNOWN, explained by the one reason of the state rule.
C12_Witness ==
    /\ Classified
    /\ payload = EmptyPayload
    /\ ~result.aligned
    /\ result.verdict = "UNKNOWN"
    /\ result.reasons = <<"state=unknown">>
    /\ result.explain = "state=unknown"

\* The value at the first key-path of the list that is present, None when none is.
RECURSIVE FirstPresentFrom(_, _, _)
FirstPresentFrom(d, paths, i) ==
    IF i > Len(paths) THEN None
    ELSE IF d[paths[i]] # None THEN d[paths[i]]
    ELSE FirstPresentFrom(d, paths, i + 1)

FirstPresent(d, paths) == FirstPresentFrom(d, paths, 1)

\* C16: every field resolved from the payload is the value at the first key-path
\* of its list that is present, whatever the value (0, false and "" included);
\* the numeric fields are that value as a number.
C16_FirstPresentWins ==
    Classified
      => /\ result.dish_state = FirstPresent(payload, StatePaths)
         /\ result.currently_obstructed = FirstPresent(payload, ObstructedPaths)
         /\ IsFloatable(FirstPresent(payload, BoresightPaths))
              => result.boresight_error_deg
                   = Num(Float(FirstPresent(payload, BoresightPaths)))
         /\ IsFloatable(FirstPresent(payload, FractionPaths))
              => result.obstruction_fraction
                   = Num(Float(FirstPresent(payload, FractionPaths)))

\* CONNECTED and ONLINE as a payload may spell them.
OkSpellings == {"CONNECTED", "connected", "ONLINE", "online", "Online"}

NoOtherFields(d) ==
    \A p \in Range(BoresightPaths) \cup Range(ObstructedPaths) \cup Range(FractionPaths) :
        d[p] = None

\* C19: a payload whose dish state is CONNECTED or ONLINE in any letter case and
\* that has no boresight, currently-obstructed or obstruction field is ALIGNED:
\* aligned is true, there is no reason and explain is "OK".
C19_HealthyIsAligned ==
    (/\ Classified
     /\ Resolve(payload, StatePaths).t = "str"
     /\ Resolve(payload, StatePaths).s \in OkSpellings
     /\ NoOtherFields(payload))
      => /\ result.verdict = "ALIGNED"
         /\ result.aligned
         /\ result.reasons = <<>>
         /\ result.explain = "OK"

\* The state spelled in lower case and nothing else in the payload.
C19_Witness ==
    /\ Classified
    /\ payload = With(EmptyPayload, "dish_state", Str("online"))
    /\ result.verdict = "ALIGNED"
    /\ result.aligned
    /\ result.explain = "OK"

----------------------------------------------------------------------------
(* Properties of check_alignment rule by rule (SpecRules).                 *)

Returned == rule = 5

\* The rules run one after the other return what check_alignment returns.
RulesAgree == Returned => result = check_alignment(payload)

\* C11: once a rule has set the verdict to NOT_OK no later step changes it, and
\* the returned verdict is ALIGNED only if the state rule yielded ALIGNED and
\* none of the boresight, currently-obstructed and obstruction rules fired.
C11_NoUpgrade ==
    /\ [][verdict = "NOT_OK" => verdict' = "NOT_OK"]_vars
    /\ [](Returned =>
            (result.verdict = "ALIGNED"
               => /\ StateRule(payload).verdict = "ALIGNED"
                  /\ ~BoresightFires(payload)
                  /\ ~ObstructedFires(payload)
                  /\ ObstructionLevel(payload) = "none"))

\* The state rule said ALIGNED, the boresight rule fired, the two rules after it
\* did not, and NOT_OK was returned.
C11_Witness ==
    /\ Returned
    /\ StateRule(payload).verdict = "ALIGNED"
    /\ BoresightFires(payload)
    /\ ~ObstructedFires(payload)
    /\ ObstructionLevel(payload) = "none"
    /\ result.verdict = "NOT_OK"
    /\ ~result.aligned

\* The resolved field as a number, None when it is absent or not a number.
Numeric(v) == IF IsFloatable(v) THEN Num(Float(v)) ELSE None

\* C17: the boresight rule fires exactly when the resolved numeric boresight
\* error is strictly above 2.5 degrees: it then sets NOT_OK and appends one
\* boresight reason; at 2.5 or below (or with no numeric value) it leaves the
\* verdict and the reasons as they were.
C17_BoresightBoundary ==
    [][rule = 1
         => LET b == Numeric(Resolve(payload, BoresightPaths))
            IN  IF b # None /\ b.n > BORESIGHT_LIMIT
                THEN /\ verdict' = "NOT_OK"
                     /\ reasons' = Append(reasons, BoresightReason(payload))
                ELSE /\ verdict' = verdict
                     /\ reasons' = reasons]_vars

\* A connected dish with a boresight error of exactly 2.5 degrees is ALIGNED.
C17_Witness ==
    /\ Returned
    /\ Resolve(payload, BoresightPaths) = Num(BORESIGHT_LIMIT)
    /\ result.boresight_error_deg = Num(BORESIGHT_LIMIT)
    /\ result.verdict = "ALIGNED"
    /\ result.reasons = <<>>

\* C18: the obstruction rule classifies the resolved numeric fraction f by strict
\* thresholds: above 0.10 one HIGH reason, above 0.02 up to 0.10 one MED reason
\* (NOT_OK in both cases, never both reasons), at 0.02 or below no reason and
\* the verdict untouched; f is recorded as obstruction_fraction in the result.
C18_ObstructionBoundary ==
    /\ [][rule = 3
            => LET f == Numeric(Resolve(payload, FractionPaths))
               IN  IF f # None /\ f.n > OBSTRUCTION_HIGH
                   THEN /\ verdict' = "NOT_OK"
                        /\ reasons' = Append(reasons, "obstruction=HIGH (" \o Fmt3(f.n) \o ")")
                   ELSE IF f # None /\ f.n > OBSTRUCTION_MED
                   THEN /\ verdict' = "NOT_OK"
                        /\ reasons' = Append(reasons, "obstruction=MED (" \o Fmt3(f.n) \o ")")
                   ELSE /\ verdict' = verdict
                        /\ reasons' = reasons]_vars
    /\ [](Returned
            => result.obstruction_fraction = Numeric(Resolve(payload, FractionPaths)))

\* A connected dish with an obstruction fraction of exactly 0.10: one MED reason,
\* the fraction recorded.
C18_Witness ==
    /\ Returned
    /\ Resolve(payload, FractionPaths) = Num(OBSTRUCTION_HIGH)
    /\ result.obstruction_fraction = Num(OBSTRUCTION_HIGH)
    /\ result.verdict = "NOT_OK"
    /\ result.reasons = <<"obstruction=MED (0.100)">>

\* The entries each rule contributes: one when it failed, none otherwise.
ReasonsByRule(d) ==
    << IF StateRule(d).verdict # "ALIGNED" THEN StateRule(d).reasons ELSE <<>>,
       IF BoresightFires(d) THEN <<BoresightReason(d)>> ELSE <<>>,
       IF ObstructedFires(d) THEN <<"currently_obstructed=true">> ELSE <<>>,
       IF ObstructionLevel(d) # "none" THEN <<ObstructionReason(d)>> ELSE <<>> >>

\* C21: the returned reasons are exactly one entry for each rule that failed, in
\* the order state, boresight, currently_obstructed, obstruction, and nothing
\* else; there are at most four, and explain, when not aligned, is these entries
\* joined by "; " in that order.
C21_ReasonsPerRule ==
    [](Returned
        => LET by == ReasonsByRule(payload)
           IN  /\ \A i \in 1..4 : Len(by[i]) <= 1
               /\ result.reasons = by[1] \o by[2] \o by[3] \o by[4]
               /\ Len(result.reasons) <= 4
               /\ ~result.aligned => result.explain = Join(result.reasons))

\* All four rules failed.
C21_Witness ==
    /\ Returned
    /\ Len(result.reasons) = 4
    /\ result.reasons[1] = "state=STOWED"
    /\ result.reasons[3] = "currently_obstructed=true"
    /\ result.explain = "state=STOWED; boresight>2.5deg (2.50deg); "
                           \o "currently_obstructed=true; obstruction=HIGH (0.100)"

\* From the payload: a rule after the state rule failed.
LaterRuleFailed(d) ==
    \/ (Numeric(Resolve(d, BoresightPaths)) # None
          /\ Numeric(Resolve(d, BoresightPaths)).n > BORESIGHT_LIMIT)
    \/ Resolve(d, ObstructedPaths) = Bool(TRUE)
    \/ (Numeric(Resolve(d, FractionPaths)) # None
          /\ Numeric(Resolve(d, FractionPaths)).n > OBSTRUCTION_MED)

\* C24: whenever UNKNOWN is returned the reasons are exactly ["state=unknown"]
\* and no rule after the state rule failed; with an absent state every other
\* result is NOT_OK with the state reason first, never ALIGNED.
C24_UnknownVerdict ==
    [](Returned
        => /\ result.verdict = "UNKNOWN"
                => /\ result.reasons = <<"state=unknown">>
                   /\ ~LaterRuleFailed(payload)
                   /\ ~result.aligned
           /\ (StateAbsent(payload) /\ result.verdict # "UNKNOWN")
                => /\ result.verdict = "NOT_OK"
                   /\ LaterRuleFailed(payload)
                   /\ Len(result.reasons) >= 2)

\* An empty state string and every other field at its limit: UNKNOWN.
C24_Witness ==
    /\ Returned
    /\ payload["dish_state"] = Str("")
    /\ payload["boresight_error_deg"] = Num(BORESIGHT_LIMIT)
    /\ payload["currently_obstructed"] = Bool(FALSE)
    /\ payload["obstruction_fraction"] = Num(OBSTRUCTION_MED)
    /\ result.verdict = "UNKNOWN"
    /\ result.reasons = <<"state=unknown">>
    /\ result.explain = "state=unknown"

====
